---- MODULE Spec2Model ----
(***************************************************************************)
(* The Wavefront custom emitter (src/wavefrontEmitter.py): one emitter     *)
(* instance, invoked once per payload by the monitoring agent.             *)
(*                                                                         *)
(* Conventions of the model                                                *)
(*  - a Python string is a sequence of one-character strings;              *)
(*  - an optional value is None (the empty sequence) or Some(x) (<<x>>);   *)
(*  - a dict is a function; a tags argument of None behaves as the empty   *)
(*    dict in every place the code reads it (`if tags`, `if not tags`);    *)
(*  - a dict value is a record [isstr, s]: whether it is a basestring and  *)
(*    its str() rendering;                                                 *)
(*  - numbers are fixed-point with one decimal digit (10005 is 1000.5);    *)
(*  - the payload is read section by section: each parse step draws the    *)
(*    section of the message it reads, the message being immutable for     *)
(*    the invocation.                                                      *)
(***************************************************************************)
EXTENDS Integers, Sequences, FiniteSets, TLC

\* ------------------------------------------------------------------ bounds

\* Invocations of one emitter instance.
MaxCalls == 2
\* Records of a series payload.
MaxRecords == 1

\* ------------------------------------------------------------ Python values

None == <<>>
Some(x) == <<x>>

Str(s) == [isstr |-> TRUE, s |-> s]
NonStr(s) == [isstr |-> FALSE, s |-> s]

EmptyDict == [x \in {} |-> x]
Put(d, k, v) == [x \in (DOMAIN d) \cup {k} |-> IF x = k THEN v ELSE d[x]]

\* ---------------------------------------------------------- string helpers

\* Index of the first occurrence of character c in s, 0 when there is none.
Find(s, c) ==
  IF \E i \in 1..Len(s) : s[i] = c
  THEN CHOOSE i \in 1..Len(s) : s[i] = c /\ \A j \in 1..(i - 1) : s[j] # c
  ELSE 0

\* str.split(sep) for a one-character separator: every occurrence splits.
RECURSIVE split(_, _)
split(s, sep) ==
  LET i == Find(s, sep)
  IN IF i = 0 THEN <<s>>
     ELSE <<SubSeq(s, 1, i - 1)>> \o split(SubSeq(s, i + 1, Len(s)), sep)

\* str.replace(c, r) for a one-character c and a replacement string r.
RECURSIVE replace(_, _, _)
replace(s, c, r) ==
  IF s = <<>> THEN <<>>
  ELSE (IF Head(s) = c THEN r ELSE <<Head(s)>>) \o replace(Tail(s), c, r)

\* str.strip(): leading and trailing blanks removed.
RECURSIVE strip(_)
strip(s) ==
  IF s = <<>> THEN s
  ELSE IF Head(s) = " " THEN strip(Tail(s))
  ELSE IF s[Len(s)] = " " THEN strip(SubSeq(s, 1, Len(s) - 1))
  ELSE s

\* emitter.sanitize
sanitize(s) == replace(replace(replace(s, "[", <<>>), "]", <<>>), "\"", <<>>)

Upper == {"I", "P", "F"}
Lower(c) == CASE c = "I" -> "i" [] c = "P" -> "p" [] c = "F" -> "f" [] OTHER -> c

\* emitter.convert_key_to_dotted_name
RECURSIVE convert_key_to_dotted_name(_)
convert_key_to_dotted_name(key) ==
  IF key = <<>> THEN <<>>
  ELSE (IF Head(key) \in Upper THEN <<".", Lower(Head(key))>> ELSE <<Head(key)>>)
       \o convert_key_to_dotted_name(Tail(key))

\* long(x): the fractional part dropped.
long(x) == (x \div 10) * 10


\* SetToSeq(S): the elements of S in one fixed (arbitrary) order, as a dict's
\* iteration order is.
RECURSIVE SetToSeq(_)
SetToSeq(S) ==
  IF S = {} THEN <<>>
  ELSE LET x == CHOOSE y \in S : TRUE IN <<x>> \o SetToSeq(S \ {x})

\* ------------------------------------------------------------ input domains

hostname == <<"h", "o", "s", "t", "n", "a", "m", "e">>
\* The host argument parse_collector passes for the generic metrics.
SentinelHost == <<"=">> \o hostname
Box == <<"b", "1">>

\* agent_config: wf_host present or not, wf_dry_run and wf_meta_tags optional.
MetaTagConfigs == {<<"t", "z", ",", " ">> \o hostname}
AgentConfigs ==
  [wf_host : {TRUE},
   wf_dry_run : {None, Some("yes"), Some("true"), Some("no")},
   wf_meta_tags : {None} \cup {Some(m) : m \in MetaTagConfigs}]
  \cup [wf_host : {FALSE}, wf_dry_run : {None, Some("yes")}, wf_meta_tags : {None}]

\* Outcomes of sock.connect: it returns, or raises socket.error (the proxy
\* refused, or its name did not resolve) and leaves the socket unconnected.
ConnectOutcomes == {"ok", "refused"}

\* Tag tokens of a series record.
DogTokens ==
  {hostname \o <<":", "x">>, <<"a", ":", "x", ":", "y">>, <<"a">>}
\* Tokens of the host-tags "system" list.
HostTagTokens ==
  {hostname \o <<":", "x">>, <<"[", "a", "]", ":", "\"", "x", "\"", ":", "y">>, <<"a">>}

Hosts == {Box, SentinelHost}
Values == {None, Some(420)}
MetricName == <<"m">>

\* The tag lists of a series record: no token, one, or "hostname:x" and one.
TagLists ==
  {<<>>} \cup {<<t>> : t \in DogTokens}
  \cup {<<hostname \o <<":", "x">>, t>> : t \in DogTokens \ {hostname \o <<":", "x">>}}
\* Its points: (timestamp, value) pairs, the value null or not.
PointLists == {<<>>, <<<<50, Some(420)>>>>, <<<<50, None>>, <<57, Some(420)>>>>}

\* A series record; the same record with one of its keys missing; one whose
\* host is the empty string.
FullRecords == [metric : {MetricName}, tags : TagLists, host : Hosts, points : PointLists]
RecordKeys == {"metric", "tags", "host", "points"}
Drop(r, k) == [x \in (DOMAIN r) \ {k} |-> r[x]]
PlainRecord ==
  [metric |-> MetricName, tags |-> <<hostname \o <<":", "x">>>>, host |-> Box,
   points |-> <<<<50, Some(420)>>>>]
SeriesRecords ==
  FullRecords \cup {Drop(PlainRecord, k) : k \in RecordKeys}
  \cup {[PlainRecord EXCEPT !.host = <<>>]}

\* The "system" list of host-tags: no token, one, or two.
HostTagLists ==
  {<<>>} \cup {<<t>> : t \in HostTagTokens} \cup {<<<<"a">>, hostname \o <<":", "x">>>>}

\* The host-tags section of a collector payload: absent, an empty dict, a dict
\* without "system", or a dict whose "system" is a list of tokens.
HostTagSections ==
  {[kind |-> "host-tags", present |-> FALSE, empty |-> TRUE, hasSystem |-> FALSE, system |-> <<>>],
   [kind |-> "host-tags", present |-> TRUE, empty |-> TRUE, hasSystem |-> FALSE, system |-> <<>>],
   [kind |-> "host-tags", present |-> TRUE, empty |-> FALSE, hasSystem |-> FALSE, system |-> <<>>]}
  \cup
  {[kind |-> "host-tags", present |-> TRUE, empty |-> FALSE, hasSystem |-> TRUE, system |-> l] :
     l \in HostTagLists}

\* The meta section: absent, or a dict.
tz == <<"t", "z">>
MetaDicts ==
  {EmptyDict, Put(Put(EmptyDict, tz, NonStr(<<"[", "]">>)), hostname, Str(<<"y">>))}
MetaSections ==
  {[kind |-> "meta", present |-> FALSE, meta |-> EmptyDict]}
  \cup {[kind |-> "meta", present |-> TRUE, meta |-> d] : d \in MetaDicts}

\* ------------------------------------------------------------------- state

VARIABLES
  \* the emitter's fields
  proxy_dry_run, sock, point_tags, source_tags, meta_tags,
  \* the position in __call__, and the locals of parse_collector and of the
  \* loop of parse_dogstatsd
  pc, tstamp, host_name, remaining,
  \* the invocation's arguments and the payload section last read
  agent_config, section,
  \* the exception in flight, and the one the except block caught
  exc, caught,
  \* what the invocation did so far: the lines the last step emitted, the log
  \* calls, whether a line was sent and whether one was printed, the socket calls
  emitted, logged, sent, printed, nsock, nconnect, connected, nshutdown, nclose,
  \* how the invocation ended, the invocations so far, and the tags at its start
  result, ncalls, point_tags0, source_tags0

fields == <<proxy_dry_run, sock, point_tags, source_tags, meta_tags>>
locals == <<pc, tstamp, host_name, remaining>>
args == <<agent_config, section>>
history ==
  <<emitted, logged, sent, printed, nsock, nconnect, connected, nshutdown, nclose,
    result, ncalls, point_tags0, source_tags0>>
vars == <<fields, locals, args, exc, caught, history>>

NoSection == [kind |-> "none"]

\* emitter.__init__; nothing has been invoked yet.
Init ==
  /\ proxy_dry_run = TRUE
  /\ sock = "None"
  /\ point_tags = EmptyDict
  /\ source_tags = <<>>
  /\ meta_tags = <<>>
  /\ pc = "idle"
  /\ tstamp = 0
  /\ host_name = <<>>
  /\ remaining = 0
  /\ agent_config = [wf_host |-> FALSE, wf_dry_run |-> None, wf_meta_tags |-> None]
  /\ section = NoSection
  /\ exc = "none"
  /\ caught = "none"
  /\ emitted = <<>>
  /\ logged = <<>>
  /\ sent = FALSE
  /\ printed = FALSE
  /\ nsock = 0
  /\ nconnect = 0
  /\ connected = FALSE
  /\ nshutdown = 0
  /\ nclose = 0
  /\ result = "none"
  /\ ncalls = 0
  /\ point_tags0 = EmptyDict
  /\ source_tags0 = <<>>

\* ------------------------------------------------------------- send_metric

\* emitter.build_tag_string: the ' "key"="value"' pairs of the string-valued
\* tags other than skip_tag_key. The text is in the dict's iteration order,
\* which is arbitrary: the model keeps the set of pairs.
build_tag_string(tags, skip_tag_key) ==
  {<<k, tags[k].s>> : k \in {x \in DOMAIN tags : tags[x].isstr /\ Some(x) # skip_tag_key}}

\* send_metric, line 148: host_name[0] of an empty host raises IndexError.
HostIndexError(host, tags) == DOMAIN tags # {} /\ host = <<>>

\* A send_metric that never promotes a tag to the host.
SkipTagKeyNever(host, tags) == None

\* send_metric, lines 147-149: the tag promoted to the host, if any.
SkipTagKey(host, tags) ==
  IF DOMAIN tags # {} /\ Head(host) = "=" /\ Tail(host) \in DOMAIN tags
  THEN Some(Tail(host))
  ELSE None

\* A send_metric that leaves the cached point tags out of the line.
LineWithoutPointTags(name, value, ts, host, tags) ==
  [name |-> name,
   value |-> value,
   tstamp |-> long(ts) \div 10,
   source |-> IF SkipTagKey(host, tags) # None THEN tags[SkipTagKey(host, tags)[1]].s
              ELSE host,
   tag_str |-> <<build_tag_string(tags, SkipTagKey(host, tags)), {}>>]

\* send_metric, lines 150-155: the line of a point with a value.
Line(name, value, ts, host, tags) ==
  LET skip_tag_key == SkipTagKey(host, tags)
  IN [name |-> name,
      value |-> value,
      tstamp |-> long(ts) \div 10,
      source |-> IF skip_tag_key # None THEN tags[skip_tag_key[1]].s ELSE host,
      tag_str |-> <<build_tag_string(tags, skip_tag_key),
                    build_tag_string(point_tags, skip_tag_key)>>]

\* send_metric, line 156: print the line, or send it.
Via == IF proxy_dry_run \/ sock = "None" THEN "print" ELSE "sendall"

Metric(name, value, ts, host, tags) ==
  [name |-> name, value |-> value, tstamp |-> ts, host_name |-> host, tags |-> tags]

\* send_metric called for each of `calls` in turn, until one raises. budget is
\* the number of sendall calls that succeed before one raises socket.error.
\* Each entry keeps, beside the line, the host and tags the call was given.
RECURSIVE send_metrics(_, _)
send_metrics(calls, budget) ==
  IF calls = <<>> THEN [emitted |-> <<>>, exc |-> "none"]
  ELSE
    LET c == Head(calls)
    IN IF c.value = None THEN send_metrics(Tail(calls), budget)
       ELSE IF HostIndexError(c.host_name, c.tags)
         THEN [emitted |-> <<>>, exc |-> "IndexError"]
       ELSE IF Via = "sendall" /\ budget = 0
         THEN [emitted |-> <<>>, exc |-> "socket.error"]
       ELSE
         LET rest == send_metrics(Tail(calls), budget - 1)
             e == [line |-> Line(c.name, c.value[1], c.tstamp, c.host_name, c.tags),
                   via |-> Via, host_name |-> c.host_name, tags |-> c.tags]
         IN [emitted |-> <<e>> \o rest.emitted, exc |-> rest.exc]


\* Whether a line was sent, and whether one was printed, among the entries of
\* a parse step.
Sent(es) == \E i \in DOMAIN es : es[i].via = "sendall"
Printed(es) == \E i \in DOMAIN es : es[i].via = "print"

\* The sendall budgets worth telling apart for `calls`: every sendall
\* succeeds, or the one after the first b does not.
Budgets(calls) ==
  IF Via = "print" THEN {0}
  ELSE 0..Cardinality({i \in DOMAIN calls : calls[i].value # None})

\* One parse step: it read section sec; reading it raised pre (or "none"), and
\* otherwise send_metric was called for each of calls. An exception leaves the
\* try block for the except block; a sendall that raised leaves the socket broken.
ParseStep(sec, pre, calls, budget, next) ==
  LET r == IF pre # "none" THEN [emitted |-> <<>>, exc |-> pre]
           ELSE send_metrics(calls, budget)
  IN /\ section' = sec
     /\ emitted' = r.emitted
     /\ sent' = (sent \/ Sent(r.emitted))
     /\ printed' = (printed \/ Printed(r.emitted))
     /\ exc' = r.exc
     /\ sock' = IF r.exc = "socket.error" THEN "broken" ELSE sock
     /\ pc' = IF r.exc # "none" THEN "except" ELSE next

\* ---------------------------------------------------------------- __call__

\* A dry-run test that knows 'yes' only.
DryRunYesOnly(cfg) == cfg.wf_dry_run # None /\ cfg.wf_dry_run[1] = "yes"

\* __call__, lines 65-67.
DryRun(cfg) ==
  cfg.wf_dry_run # None /\ (cfg.wf_dry_run[1] = "yes" \/ cfg.wf_dry_run[1] = "true")

\* __call__, lines 71-73: the list is replaced only when wf_meta_tags is set.
ConfiguredMetaTags(cfg) ==
  IF cfg.wf_meta_tags # None
  THEN LET parts == split(cfg.wf_meta_tags[1], ",")
       IN [i \in 1..Len(parts) |-> strip(parts[i])]
  ELSE meta_tags

\* __call__, lines 56-73: the configuration. Without wf_host the invocation
\* logs an error and returns.
Call(cfg) ==
  /\ pc = "idle"
  /\ ncalls < MaxCalls
  /\ ncalls' = ncalls + 1
  /\ agent_config' = cfg
  /\ section' = NoSection
  /\ emitted' = <<>>
  /\ sent' = FALSE /\ printed' = FALSE /\ nsock' = 0 /\ nconnect' = 0
  /\ nshutdown' = 0 /\ nclose' = 0 /\ connected' = FALSE
  /\ exc' = "none" /\ caught' = "none"
  /\ tstamp' = 0 /\ host_name' = <<>> /\ remaining' = 0
  /\ point_tags0' = point_tags
  /\ source_tags0' = source_tags
  /\ IF ~cfg.wf_host
     THEN /\ logged' = <<"error">>
          /\ result' = "returned"
          /\ pc' = "idle"
          /\ UNCHANGED <<proxy_dry_run, meta_tags>>
     ELSE /\ proxy_dry_run' = DryRun(cfg)
          /\ logged' = <<"debug">>
          /\ meta_tags' = ConfiguredMetaTags(cfg)
          /\ result' = "none"
          /\ pc' = "connect"
  /\ UNCHANGED <<sock, point_tags, source_tags>>

\* __call__, lines 77-92: a socket is created and connected unless in dry-run.
\* A connect that raises socket.error is logged and the invocation returns,
\* through the finally block.
Connect(outcome) ==
  /\ pc = "connect"
  /\ IF ~proxy_dry_run
     THEN /\ nsock' = nsock + 1
          /\ nconnect' = nconnect + 1
          /\ IF outcome = "ok"
             THEN /\ sock' = "connected"
                  /\ connected' = TRUE
                  /\ pc' = "dispatch"
                  /\ UNCHANGED logged
             ELSE /\ sock' = "unconnected"
                  /\ logged' = Append(logged, "error")
                  /\ pc' = "finally"
                  /\ UNCHANGED connected
     ELSE /\ outcome = "ok"
          /\ sock' = "None"
          /\ pc' = "dispatch"
          /\ UNCHANGED <<nsock, nconnect, connected, logged>>
  /\ UNCHANGED <<proxy_dry_run, point_tags, source_tags, meta_tags, tstamp, host_name,
                 remaining, args, exc, caught, emitted, sent, printed, nshutdown,
                 nclose, result, ncalls, point_tags0, source_tags0>>

\* __call__, lines 95-101: a payload with a "series" key (a list of n records)
\* goes to parse_dogstatsd, any other to the three collector parsers.
Dispatch(series, n) ==
  /\ pc = "dispatch"
  /\ IF series
     THEN /\ remaining' = n
          /\ pc' = "dogstatsd"
     ELSE /\ n = 0
          /\ remaining' = 0
          /\ pc' = "host_tags"
  /\ UNCHANGED <<fields, tstamp, host_name, args, exc, caught, history>>

\* __call__, lines 104-107: the except block logs through log.err. The log
\* object is the host's: a logging.Logger has no err method, and the call then
\* raises AttributeError.
Except(hasErr) ==
  /\ pc = "except"
  /\ caught' = exc
  /\ IF hasErr
     THEN logged' = Append(logged, "err") /\ exc' = "none"
     ELSE exc' = "AttributeError" /\ UNCHANGED logged
  /\ pc' = "finally"
  /\ section' = NoSection
  /\ emitted' = <<>>
  /\ UNCHANGED <<fields, tstamp, host_name, remaining, agent_config, sent, printed,
                 nsock, nconnect, connected, nshutdown, nclose, result, ncalls,
                 point_tags0, source_tags0>>

\* What sock.shutdown(SHUT_RDWR) can do on a socket in state s: a socket that
\* never connected raises socket.error (ENOTCONN); one whose sendall raised may
\* or may not, by what the peer did (a reset connection is not connected).
ShutdownOutcomes(s) ==
  CASE s = "connected" -> {"ok"}
    [] s = "unconnected" -> {"ENOTCONN"}
    [] OTHER -> {"ok", "ENOTCONN"}

\* __call__, lines 109-113: the finally block, and the end of the invocation.
\* An exception of shutdown replaces the one in flight and skips close.
Finally(outcome) ==
  /\ pc = "finally"
  /\ IF sock # "None" /\ ~proxy_dry_run
     THEN /\ outcome \in ShutdownOutcomes(sock)
          /\ nshutdown' = nshutdown + 1
          /\ IF outcome = "ok"
             THEN nclose' = nclose + 1 /\ sock' = "closed" /\ UNCHANGED exc
             ELSE exc' = "socket.error" /\ UNCHANGED <<nclose, sock>>
     ELSE /\ outcome = "ok"
          /\ UNCHANGED <<nshutdown, nclose, sock, exc>>
  /\ result' = IF exc' = "none" THEN "returned" ELSE "raised"
  /\ pc' = "idle"
  /\ section' = NoSection
  /\ emitted' = <<>>
  /\ UNCHANGED <<proxy_dry_run, point_tags, source_tags, meta_tags, tstamp, host_name,
                 remaining, agent_config, caught, logged, sent, printed, nsock,
                 nconnect, connected, ncalls, point_tags0, source_tags0>>

\* ---------------------------------------------------------- parse_dogstatsd

\* parse_dogstatsd, lines 126-130: every token is split on every colon and the
\* first two parts kept; a later token overrides an earlier one of its key.
RECURSIVE dogstatsd_tags(_, _)
dogstatsd_tags(jtags, tags) ==
  IF jtags = <<>> THEN tags
  ELSE LET parts == split(Head(jtags), ":")
       IN dogstatsd_tags(Tail(jtags), Put(tags, parts[1], Str(parts[2])))

\* parse_dogstatsd, lines 124-133: what reading one record raises, in the
\* order of the reads: a missing key is a KeyError, parts[1] of a token
\* without a colon an IndexError.
dogstatsd_exc(metric) ==
  IF "metric" \notin DOMAIN metric \/ "tags" \notin DOMAIN metric THEN "KeyError"
  ELSE IF \E i \in DOMAIN metric.tags : Len(split(metric.tags[i], ":")) < 2 THEN "IndexError"
  ELSE IF "host" \notin DOMAIN metric \/ "points" \notin DOMAIN metric THEN "KeyError"
  ELSE "none"

\* parse_dogstatsd, lines 134-137: one send_metric call per point.
dogstatsd_calls(metric) ==
  LET tags == dogstatsd_tags(metric.tags, EmptyDict)
  IN [i \in 1..Len(metric.points) |->
        Metric(metric.metric, metric.points[i][2], metric.points[i][1], metric.host, tags)]

\* parse_dogstatsd, line 123: the head of the loop over message['series'];
\* the next record, or the end of the loop and of the try block.
DogstatsdNext ==
  /\ pc = "dogstatsd"
  /\ IF remaining = 0
     THEN pc' = "finally" /\ UNCHANGED remaining
     ELSE pc' = "dogstatsd_metric" /\ remaining' = remaining - 1
  /\ section' = NoSection
  /\ emitted' = <<>>
  /\ UNCHANGED <<fields, tstamp, host_name, agent_config, exc, caught, logged, sent,
                 printed, nsock, nconnect, connected, nshutdown, nclose, result, ncalls,
                 point_tags0, source_tags0>>

\* parse_dogstatsd, lines 124-137: the body of the loop, for one record.
DogstatsdMetric(metric, budget) ==
  /\ pc = "dogstatsd_metric"
  /\ LET pre == dogstatsd_exc(metric)
         calls == IF pre = "none" THEN dogstatsd_calls(metric) ELSE <<>>
     IN /\ budget \in Budgets(calls)
        /\ ParseStep([kind |-> "series", metric |-> metric], pre, calls, budget,
                     "dogstatsd")
  /\ UNCHANGED <<proxy_dry_run, point_tags, source_tags, meta_tags, tstamp, host_name,
                 remaining, agent_config, caught, logged, nsock, nconnect, connected,
                 nshutdown, nclose, result, ncalls, point_tags0, source_tags0>>


\* ---------------------------------------------- parse_host_tags, parse_meta_tags

\* parse_host_tags, lines 330-336: the point tags after the tokens of `system`.
\* A token with a colon is split on every colon and its first two parts,
\* sanitized, stored.
RECURSIVE host_point_tags(_, _)
host_point_tags(system, tags) ==
  IF system = <<>> THEN tags
  ELSE LET tag == Head(system)
           parts == split(tag, ":")
       IN host_point_tags(Tail(system),
            IF Find(tag, ":") # 0
            THEN Put(tags, sanitize(parts[1]), Str(sanitize(parts[2])))
            ELSE tags)

\* A parse_host_tags that rebuilds the cache from the payload's tokens alone.
parse_host_tags_rebuilt(sec) == host_point_tags(sec.system, EmptyDict)

\* parse_host_tags, lines 330-336: the tokens are stored into self.point_tags.
parse_host_tags_point_tags(sec) == host_point_tags(sec.system, point_tags)

\* parse_host_tags, lines 323-336.
ParseHostTags(sec) ==
  /\ pc = "host_tags"
  /\ section' = sec
  /\ IF ~sec.present \/ sec.empty \/ ~sec.hasSystem
     THEN UNCHANGED <<source_tags, point_tags>>
     ELSE /\ source_tags' = source_tags \o sec.system
          /\ point_tags' = parse_host_tags_point_tags(sec)
  /\ pc' = "meta_tags"
  /\ UNCHANGED <<proxy_dry_run, sock, meta_tags, tstamp, host_name, remaining,
                 agent_config, exc, caught, history>>

\* parse_meta_tags, lines 305-307: the point tags after the configured keys
\* found in meta are copied.
RECURSIVE meta_point_tags(_, _, _)
meta_point_tags(keys, meta, tags) ==
  IF keys = <<>> THEN tags
  ELSE meta_point_tags(Tail(keys), meta,
         IF Head(keys) \in DOMAIN meta THEN Put(tags, Head(keys), meta[Head(keys)])
         ELSE tags)

\* parse_meta_tags, lines 300-307.
ParseMetaTags(sec) ==
  /\ pc = "meta_tags"
  /\ section' = sec
  /\ point_tags' = IF sec.present THEN meta_point_tags(meta_tags, sec.meta, point_tags)
                   ELSE point_tags
  /\ pc' = "gauges"
  /\ UNCHANGED <<proxy_dry_run, sock, source_tags, meta_tags, tstamp, host_name,
                 remaining, agent_config, exc, caught, history>>

\* ---------------------------------------------------------- parse_collector

System == <<"s", "y", "s", "t", "e", "m", ".">>
cpuIdle == <<"c", "p", "u", "I", "d", "l", "e">>
memPhysFree == <<"m", "e", "m", "P", "h", "y", "s", "F", "r", "e", "e">>
uptime == <<"u", "p", "t", "i", "m", "e">>

\* key[0:3]
Prefix3(key) == SubSeq(key, 1, IF Len(key) < 3 THEN Len(key) ELSE 3)
IsGauge(key) == Prefix3(key) = <<"c", "p", "u">> \/ Prefix3(key) = <<"m", "e", "m">>

\* The top of a collector payload: collection_timestamp and internalHostname
\* (each may be missing) and its other top-level keys with a number.
GaugeDicts ==
  {EmptyDict,
   Put(EmptyDict, cpuIdle, Some(993)),
   Put(Put(Put(EmptyDict, cpuIdle, Some(993)), memPhysFree, Some(20)), uptime, Some(70))}
GaugeSections ==
  [kind : {"gauges"}, collection_timestamp : {Some(10005)},
   internalHostname : {Some(Box)}, top : GaugeDicts]
  \cup {[kind |-> "gauges", collection_timestamp |-> None,
         internalHostname |-> Some(Box), top |-> EmptyDict],
        [kind |-> "gauges", collection_timestamp |-> Some(10005),
         internalHostname |-> None, top |-> EmptyDict]}

\* parse_collector, lines 243-250: the cpu* and mem* keys, in the dict's order.
gauge_calls(top, ts, host) ==
  LET keys == SelectSeq(SetToSeq(DOMAIN top), IsGauge)
  IN [i \in 1..Len(keys) |->
        Metric(System \o convert_key_to_dotted_name(keys[i]), top[keys[i]], ts, host,
               EmptyDict)]

CollectorGauges(sec, budget) ==
  /\ pc = "gauges"
  /\ LET pre == IF sec.collection_timestamp = None \/ sec.internalHostname = None
                THEN "KeyError" ELSE "none"
         ts == IF pre = "none" THEN long(sec.collection_timestamp[1]) ELSE tstamp
         host == IF pre = "none" THEN sec.internalHostname[1] ELSE host_name
         calls == IF pre = "none" THEN gauge_calls(sec.top, ts, host) ELSE <<>>
     IN /\ budget \in Budgets(calls)
        /\ tstamp' = ts
        /\ host_name' = host
        /\ ParseStep(sec, pre, calls, budget, "metrics")
  /\ UNCHANGED <<proxy_dry_run, point_tags, source_tags, meta_tags, remaining,
                 agent_config, caught, logged, nsock, nconnect, connected, nshutdown,
                 nclose, result, ncalls, point_tags0, source_tags0>>

\* The generic metrics array: 4-tuples (name, timestamp, value, tags).
MetricTagDicts ==
  {EmptyDict,
   Put(EmptyDict, hostname, Str(Box)),
   Put(EmptyDict, <<"a">>, Str(<<"x">>)),
   Put(Put(Put(EmptyDict, hostname, Str(Box)), <<"a">>, Str(<<"x">>)), tz, NonStr(<<"[", "]">>))}
MetricTuples ==
  {<<MetricName, 10005, Some(420), t>> : t \in MetricTagDicts}
  \cup {<<MetricName, 10005, None, EmptyDict>>}
MetricsLists ==
  {<<>>} \cup {<<m>> : m \in MetricTuples}
  \cup {<<<<MetricName, 10005, None, EmptyDict>>,
          <<MetricName, 10005, Some(420), Put(EmptyDict, hostname, Str(Box))>>>>}
MetricsSections == [kind : {"metrics"}, metrics : {None} \cup {Some(l) : l \in MetricsLists}]

\* parse_collector, lines 253-256.
metrics_calls(metrics) ==
  [i \in 1..Len(metrics) |->
     Metric(metrics[i][1], metrics[i][3], long(metrics[i][2]), SentinelHost, metrics[i][4])]

CollectorMetrics(sec, budget) ==
  /\ pc = "metrics"
  /\ LET pre == IF sec.metrics = None THEN "KeyError" ELSE "none"
         calls == IF pre = "none" THEN metrics_calls(sec.metrics[1]) ELSE <<>>
     IN /\ budget \in Budgets(calls)
        /\ ParseStep(sec, pre, calls, budget, "iostats")
  /\ UNCHANGED <<proxy_dry_run, point_tags, source_tags, meta_tags, tstamp, host_name,
                 remaining, agent_config, caught, logged, nsock, nconnect, connected,
                 nshutdown, nclose, result, ncalls, point_tags0, source_tags0>>

\* ioStats: disk name -> (stat name -> value).
sda == <<"s", "d", "a">>
Util == <<"%", "u", "t", "i", "l">>
ReadsPerSec == <<"r", "/", "s">>
IoStatsDicts ==
  {EmptyDict,
   Put(EmptyDict, sda, Put(EmptyDict, Util, Some(5))),
   Put(EmptyDict, sda, Put(Put(EmptyDict, Util, Some(5)), ReadsPerSec, None))}
IoStatsSections ==
  [kind : {"iostats"}, ioStats : {None} \cup {Some(d) : d \in IoStatsDicts}]

\* parse_collector, lines 261-267: the stats of one disk.
disk_calls(disk_name, stats, ts, host) ==
  LET names == SetToSeq(DOMAIN stats)
  IN [i \in 1..Len(names) |->
        Metric(<<"s", "y", "s", "t", "e", "m", ".", "i", "o", ".">>
                 \o replace(replace(names[i], "%", <<>>), "/", <<"_">>),
               stats[names[i]], ts, host,
               Put(EmptyDict, <<"d", "i", "s", "k">>, Str(disk_name)))]

\* parse_collector, lines 259-267: every disk, in the dict's order.
RECURSIVE iostats_calls(_, _, _, _)
iostats_calls(disks, iostats, ts, host) ==
  IF disks = <<>> THEN <<>>
  ELSE disk_calls(Head(disks), iostats[Head(disks)], ts, host)
       \o iostats_calls(Tail(disks), iostats, ts, host)

CollectorIoStats(sec, budget) ==
  /\ pc = "iostats"
  /\ LET pre == IF sec.ioStats = None THEN "KeyError" ELSE "none"
         calls == IF pre = "none"
                  THEN iostats_calls(SetToSeq(DOMAIN sec.ioStats[1]), sec.ioStats[1],
                                     tstamp, host_name)
                  ELSE <<>>
     IN /\ budget \in Budgets(calls)
        /\ ParseStep(sec, pre, calls, budget, "processes")
  /\ UNCHANGED <<proxy_dry_run, point_tags, source_tags, meta_tags, tstamp, host_name,
                 remaining, agent_config, caught, logged, nsock, nconnect, connected,
                 nshutdown, nclose, result, ncalls, point_tags0, source_tags0>>

\* processes: missing, a dict without its "processes" list, or the list's size.
ProcessesSections ==
  [kind : {"processes"}, processes : {None, Some(None), Some(Some(3))}]

\* parse_collector, lines 270-275.
CollectorProcesses(sec, budget) ==
  /\ pc = "processes"
  /\ LET pre == IF sec.processes = None \/ sec.processes[1] = None THEN "KeyError"
                ELSE "none"
         calls == IF pre = "none"
                  THEN <<Metric(System \o <<"p", "r", "o", "c", "e", "s", "s", "e", "s",
                                            ".", "c", "o", "u", "n", "t">>,
                                Some(sec.processes[1][1] * 10), tstamp, host_name,
                                EmptyDict)>>
                  ELSE <<>>
     IN /\ budget \in Budgets(calls)
        /\ ParseStep(sec, pre, calls, budget, "load")
  /\ UNCHANGED <<proxy_dry_run, point_tags, source_tags, meta_tags, tstamp, host_name,
                 remaining, agent_config, caught, logged, nsock, nconnect, connected,
                 nshutdown, nclose, result, ncalls, point_tags0, source_tags0>>

\* parse_collector, lines 278-280.
Load == <<"l", "o", "a", "d", ".">>
Norm == <<"n", "o", "r", "m", ".">>
load_metric_names ==
  <<System \o Load \o <<"1">>, System \o Load \o <<"1", "5">>, System \o Load \o <<"5">>,
    System \o Load \o Norm \o <<"1">>, System \o Load \o Norm \o <<"1", "5">>,
    System \o Load \o Norm \o <<"5">>>>

\* The load averages of the payload: the top-level keys present, with a value.
LoadDicts ==
  {EmptyDict,
   Put(EmptyDict, load_metric_names[1], Some(1)),
   Put(Put(EmptyDict, load_metric_names[6], Some(2)), load_metric_names[1], None)}
LoadSections == [kind : {"load"}, top : LoadDicts]

\* parse_collector, lines 281-285: the names present, in the list's order.
InTop(top) == LET Test(n) == n \in DOMAIN top IN SelectSeq(load_metric_names, Test)
load_calls(top, ts, host) ==
  LET names == InTop(top)
  IN [i \in 1..Len(names) |-> Metric(names[i], top[names[i]], ts, host, EmptyDict)]

CollectorLoad(sec, budget) ==
  /\ pc = "load"
  /\ LET calls == load_calls(sec.top, tstamp, host_name)
     IN /\ budget \in Budgets(calls)
        /\ ParseStep(sec, "none", calls, budget, "finally")
  /\ UNCHANGED <<proxy_dry_run, point_tags, source_tags, meta_tags, tstamp, host_name,
                 remaining, agent_config, caught, logged, nsock, nconnect, connected,
                 nshutdown, nclose, result, ncalls, point_tags0, source_tags0>>

\* ------------------------------------------------------------ specification

Next ==
  \/ \E cfg \in AgentConfigs : Call(cfg)
  \/ \E outcome \in ConnectOutcomes : Connect(outcome)
  \/ \E series \in BOOLEAN, n \in 0..MaxRecords : Dispatch(series, n)
  \/ DogstatsdNext
  \/ \E metric \in SeriesRecords, budget \in 0..2 : DogstatsdMetric(metric, budget)
  \/ \E sec \in HostTagSections : ParseHostTags(sec)
  \/ \E sec \in MetaSections : ParseMetaTags(sec)
  \/ \E sec \in GaugeSections, budget \in 0..3 : CollectorGauges(sec, budget)
  \/ \E sec \in MetricsSections, budget \in 0..1 : CollectorMetrics(sec, budget)
  \/ \E sec \in IoStatsSections, budget \in 0..2 : CollectorIoStats(sec, budget)
  \/ \E sec \in ProcessesSections, budget \in 0..1 : CollectorProcesses(sec, budget)
  \/ \E sec \in LoadSections, budget \in 0..2 : CollectorLoad(sec, budget)
  \/ \E hasErr \in BOOLEAN : Except(hasErr)
  \/ \E outcome \in {"ok", "ENOTCONN"} : Finally(outcome)

Spec == Init /\ [][Next]_vars


\* ------------------------------------------------------------------ claims

\* An invocation has ended (and no other has begun).
Ended == pc = "idle" /\ ncalls > 0

\* The pairs of a line's tag fragment, metric tags and point tags together.
Pairs(e) == e.line.tag_str[1] \cup e.line.tag_str[2]

\* The text of token t before its first colon, and the whole text after it.
BeforeColon(t) == SubSeq(t, 1, Find(t, ":") - 1)
AfterColon(t) == SubSeq(t, Find(t, ":") + 1, Len(t))

\* C1: every invocation of __call__ returns normally, whatever the payload,
\* the configuration and the transport do: no exception reaches the caller.
C1_NoExceptionEscapes == Ended => result = "returned"

\* C2: at the end of an invocation shutdown and close have each been called
\* exactly once if its connect succeeded, and not at all otherwise (dry-run,
\* no wf_host, failed connect).
C2_CloseIffConnected ==
  Ended => /\ nshutdown = (IF connected THEN 1 ELSE 0)
           /\ nclose = (IF connected THEN 1 ELSE 0)

\* C3: an invocation whose connect failed sent and printed no line, left
\* point_tags and source_tags as they were, logged exactly one error and
\* returned, so that the next invocation starts from the state it would have
\* had without it.
C3_ConnectFailureAborts ==
  (Ended /\ nconnect = 1 /\ ~connected) =>
    /\ ~sent /\ ~printed
    /\ point_tags = point_tags0
    /\ source_tags = source_tags0
    /\ Cardinality({i \in DOMAIN logged : logged[i] \in {"error", "err"}}) = 1
    /\ result = "returned"

\* C4: no step ever removes a key of point_tags, and only a step that reads a
\* host-tags or meta section present in the payload changes point_tags at
\* all: a payload without them leaves every cached key and value as it was.
C4_PointTagsPersist ==
  [][/\ \A k \in DOMAIN point_tags : k \in DOMAIN point_tags'
     /\ \/ point_tags' = point_tags
        \/ (pc \in {"host_tags", "meta_tags"} /\ section'.present)]_vars

\* C4's case: a second invocation that failed to parse its payload has ended,
\* and the tags cached before it are still there.
C4_Witness ==
  /\ Ended /\ ncalls = 2 /\ caught # "none"
  /\ DOMAIN point_tags0 # {}
  /\ point_tags = point_tags0

\* C5 as claimed: every emitted line has the pair "k"="v" of every point tag k
\* cached with a string value v.
C5_EveryLineHasEveryPointTag ==
  \A i \in DOMAIN emitted : \A k \in DOMAIN point_tags :
    point_tags[k].isstr => <<k, point_tags[k].s>> \in Pairs(emitted[i])

\* C5 as amended: every emitted line has, in its point-tag fragment, the pair
\* "k"="v" of every point tag k cached with a string value v, except the tag
\* promoted to the source: k when the host is "=k" and k is a metric tag.
C5_EveryLineHasPointTagsButPromoted ==
  \A i \in DOMAIN emitted : \A k \in DOMAIN point_tags :
    (/\ point_tags[k].isstr
     /\ ~(emitted[i].host_name = <<"=">> \o k /\ k \in DOMAIN emitted[i].tags))
    => <<k, point_tags[k].s>> \in emitted[i].line.tag_str[2]

\* C5's case: in a later invocation a generic metric of a collector payload,
\* whose host is "=hostname", is emitted with tags cached by an earlier one.
C5_Witness ==
  /\ ncalls = 2
  /\ point_tags = point_tags0
  /\ \E i \in DOMAIN emitted :
       /\ emitted[i].host_name = SentinelHost
       /\ emitted[i].line.tag_str[2] # {}

\* C6: a series record one of whose tag tokens has no colon (and that is
\* otherwise well formed) raises nothing for it: unless a send fails, it emits
\* one line for each point with a value, each with the tags of its well-formed
\* tokens, and the loop goes on to the next record.
C6_ColonlessTokenSkipped ==
  (/\ section.kind = "series"
   /\ DOMAIN section.metric = RecordKeys
   /\ section.metric.host # <<>>
   /\ \E i \in DOMAIN section.metric.tags : Find(section.metric.tags[i], ":") = 0)
  => LET m == section.metric
         valued == {j \in DOMAIN m.points : m.points[j][2] # None}
         formed == {j \in DOMAIN m.tags : Find(m.tags[j], ":") # 0}
     IN /\ exc \in {"none", "socket.error"}
        /\ exc = "none" =>
             /\ pc = "dogstatsd"
             /\ Len(emitted) = Cardinality(valued)
             /\ \A i \in DOMAIN emitted : \A j \in formed :
                  \/ m.host = <<"=">> \o BeforeColon(m.tags[j])
                  \/ \E p \in emitted[i].line.tag_str[1] : p[1] = BeforeColon(m.tags[j])

\* C7: a line emitted for host "=<key>" with <key> among the metric's tags has
\* tags[<key>] as its source and no pair of key <key>; any other line has the
\* host as its source and every string-valued metric tag in its fragment.
C7_HostSubstitution ==
  \A i \in DOMAIN emitted :
    LET e == emitted[i]
        host == e.host_name
    IN IF host # <<>> /\ Head(host) = "=" /\ Tail(host) \in DOMAIN e.tags
       THEN /\ e.line.source = e.tags[Tail(host)].s
            /\ \A p \in Pairs(e) : p[1] # Tail(host)
       ELSE /\ e.line.source = host
            /\ \A k \in DOMAIN e.tags :
                 e.tags[k].isstr => <<k, e.tags[k].s>> \in e.line.tag_str[1]

\* C7's case: a line was emitted for host "=hostname" and a metric with a
\* hostname tag, while a point tag named hostname is cached.
C7_Witness ==
  \E i \in DOMAIN emitted :
    /\ emitted[i].host_name = SentinelHost
    /\ hostname \in DOMAIN emitted[i].tags
    /\ hostname \in DOMAIN point_tags
    /\ emitted[i].line.source = Box

C9_NoMetaTagsByDefault ==
  [][(agent_config'.wf_host /\ agent_config'.wf_meta_tags = None)
       => /\ meta_tags' = <<>>
          /\ pc = "meta_tags" => point_tags' = point_tags]_vars

\* C10: a token with a colon is split on its first colon only. parse_host_tags
\* stores, under the sanitized text before the first colon, the sanitized
\* whole remainder (for the last token of that key); parse_dogstatsd gives
\* every line of the record the pair of the text before the first colon and
\* the whole remainder (for the last token of that key, unless promoted).
C10_SplitOnFirstColon ==
  /\ (section.kind = "host-tags" /\ section.hasSystem) =>
       \A i \in DOMAIN section.system :
         LET t == section.system[i]
         IN (/\ Find(t, ":") # 0
             /\ \A j \in DOMAIN section.system :
                  (j > i /\ Find(section.system[j], ":") # 0)
                  => sanitize(BeforeColon(section.system[j])) # sanitize(BeforeColon(t)))
            => /\ sanitize(BeforeColon(t)) \in DOMAIN point_tags
               /\ point_tags[sanitize(BeforeColon(t))] = Str(sanitize(AfterColon(t)))
  /\ section.kind = "series" =>
       \A e \in DOMAIN emitted : \A i \in DOMAIN section.metric.tags :
         LET tags == section.metric.tags
             t == tags[i]
         IN (/\ Find(t, ":") # 0
             /\ \A j \in DOMAIN tags : j > i => BeforeColon(tags[j]) # BeforeColon(t)
             /\ section.metric.host # <<"=">> \o BeforeColon(t))
            => <<BeforeColon(t), AfterColon(t)>> \in emitted[e].line.tag_str[1]

====
